---- MODULE Spec2Model ----
(***************************************************************************)
(* ibookle: the recommendation pipeline of app.py and app_brief.py over    *)
(* the shared spreadsheet log "AI_User_Logs"/"Brief_Logs".                 *)
(*                                                                         *)
(* A Streamlit session runs its script top to bottom on every user event.  *)
(* Each session is a process. Retrieval and generation touch nothing the   *)
(* sessions share, so a page run is one step up to its first call on the   *)
(* shared sheet; from there its position (pc) stops before every sheet     *)
(* call (append_row, get_all_values, update_cell), so that the calls of    *)
(* concurrent sessions interleave on the sheet as the network calls do.    *)
(*                                                                         *)
(* Python's None is the empty sequence, a value x is <<x>>.                *)
(* Non-ASCII literals of the source are written in ASCII:                  *)
(*   "unknown" for the default title/author, "thumbs_up"/"thumbs_down"     *)
(*   for the two feedback texts.                                           *)
(* The sidebar of app.py (lines 160-182) only reads the sheet inside a     *)
(* try/except and changes no state; it is not modelled.                    *)
(***************************************************************************)
EXTENDS Naturals, Sequences, FiniteSets, TLC

\* ---------------------------------------------------------------- bounds
\* User events (query submissions and feedback clicks) over all sessions.
MaxEvents == 3

\* ------------------------------------------------------------- constants
\* similarity_search(user_query, k=5)
K == 5
\* update_cell(row_idx, 6, feedback_text) in app.py
AppFeedbackCol == 6
\* update_cell(row_index, 5, feedback_text) in app_brief.py
BriefFeedbackCol == 5

AppSessions == {"a1", "a2"}
BriefSessions == {"b1"}
Sessions == AppSessions \cup BriefSessions

Queries == {"q1", "q2"}
AIResponses == {"r1"}
Scores == {0, 1}

None == << >>
Some(x) == << x >>
\* Python truthiness of an optional row index: None and 0 are falsy.
Truthy(o) == o # None /\ o[1] # 0

\* The vector index: book records (metadata) and the rankings it may return.
\* d3 carries no Title, d4 repeats the title of d1.
Docs == {"d1", "d2", "d3", "d4", "d5", "d6"}
Meta(d) ==
    CASE d = "d1" -> [Title |-> "A", Author |-> "x"]
      [] d = "d2" -> [Title |-> "B", Author |-> "y"]
      [] d = "d3" -> [Author |-> "z"]
      [] d = "d4" -> [Title |-> "A", Author |-> "w"]
      [] d = "d5" -> [Title |-> "C"]
      [] OTHER    -> [Title |-> "D", Author |-> "x"]
Rankings == { << >>, <<"d3", "d1", "d4", "d5", "d2", "d6">> }

\* d.metadata.get(key, default)
MetaGet(d, key, default) ==
    IF key \in DOMAIN Meta(d) THEN Meta(d)[key] ELSE default

Min(a, b) == IF a <= b THEN a ELSE b

\* vectorstore.similarity_search(user_query, k): the k nearest, in rank order.
SimilaritySearch(ranking, k) == SubSeq(ranking, 1, Min(k, Len(ranking)))

\* sep.join(strs)
RECURSIVE Join(_, _)
Join(strs, sep) ==
    IF strs = << >> THEN ""
    ELSE IF Len(strs) = 1 THEN strs[1]
    ELSE strs[1] \o sep \o Join(Tail(strs), sep)

\* Mutant of AppBookTitles: the titles are collected in reverse order.
AppBookTitlesReversed(results) ==
    [i \in 1..Len(results) |->
        MetaGet(results[Len(results) + 1 - i], "Title", "unknown")]

\* app.py: book_titles = [d.metadata.get('Title','unknown') for d in results]
AppBookTitles(results) ==
    [i \in 1..Len(results) |-> MetaGet(results[i], "Title", "unknown")]

\* app.py: titles_str = ", ".join(book_titles)
AppTitlesStr(results) == Join(AppBookTitles(results), ", ")

\* app.py: the "books" list stored in st.session_state.search_results
\* (Title and Author stand for the seven copied metadata fields).
AppStoredBooks(results) ==
    [i \in 1..Len(results) |->
        [Title  |-> MetaGet(results[i], "Title", "unknown"),
         Author |-> MetaGet(results[i], "Author", "unknown")]]

\* app_brief.py: titles = ", ".join([d.metadata.get('Title','') for d in results])
BriefTitlesStr(results) ==
    Join([i \in 1..Len(results) |-> MetaGet(results[i], "Title", "")], ", ")

\* feedback_text = thumbs-up if score == 1 else thumbs-down
FeedbackText(score) == IF score = 1 THEN "thumbs_up" ELSE "thumbs_down"

\* ----------------------------------------------------------------- state
VARIABLES
    log,            \* worksheet "Brief_Logs": the rows, row 1 is the header
    clock,          \* user events so far
    pc,             \* each session's position in its page run
    query,          \* the text_input value (user_query / user_input)
    search_results, \* st.session_state.search_results (app.py)
    prev_query,     \* st.session_state.prev_query (app.py)
    last_row_idx,   \* st.session_state.last_row_idx (app.py), row_idx (app_brief.py)
    wkey,           \* row index in the key of the registered feedback widget
    wval,           \* the feedback widget's value
    results,        \* local: the documents retrieved in this run
    ai_response,    \* local: the generated text of this run
    run,            \* history: what the current (or last) page run did
    issued,         \* history: every update_cell call issued
    returned,       \* history: row indices save_to_log returned, per session
    saved           \* history: how save_to_log ended for the stored results

vars == << log, clock, pc, query, search_results,
           prev_query, last_row_idx, wkey, wval, results, ai_response, run,
           issued, returned, saved >>

\* The header the admin dashboard reads the columns by.
HeaderRow ==
    [cells |-> <<"Time", "Session_ID", "User_Input", "AI_Response",
                 "Recommended_Books", "Feedback">>,
     by |-> "", prog |-> "header", nfb |-> 0]

\* A page run that has done nothing yet.
\*   calls: the external calls made, in order; fail: the calls that failed
\*   shown: what the page shows; aborted: an uncaught exception ended the run
\*   rerun: the run started with the query text unchanged
\*   found: the documents retrieval returned; row: the row append_row wrote
FreshRun(isRerun) ==
    [calls |-> << >>, fail |-> {}, shown |-> {}, aborted |-> FALSE,
     rerun |-> isRerun, found |-> << >>, row |-> None]

Unset == "<unset>"

Init ==
    /\ log = << HeaderRow >>
    /\ clock = 0
    /\ pc = [s \in Sessions |-> "idle"]
    /\ query = [s \in Sessions |-> ""]
    /\ search_results = [s \in Sessions |-> None]
    /\ prev_query = [s \in Sessions |-> Unset]
    /\ last_row_idx = [s \in Sessions |-> None]
    /\ wkey = [s \in Sessions |-> None]
    /\ wval = [s \in Sessions |-> None]
    /\ results = [s \in Sessions |-> << >>]
    /\ ai_response = [s \in Sessions |-> ""]
    /\ run = [s \in Sessions |-> FreshRun(FALSE)]
    /\ issued = {}
    /\ returned = [s \in Sessions |-> {}]
    /\ saved = [s \in Sessions |-> "none"]

\* ------------------------------------------------------- the spreadsheet
\* A row's cells with cell col set to val (the grid pads short rows with "").
SetCell(cells, col, val) ==
    [c \in 1..(IF col > Len(cells) THEN col ELSE Len(cells)) |->
        IF c = col THEN val ELSE IF c <= Len(cells) THEN cells[c] ELSE ""]

\* The column a row's appender keeps the feedback in (the header follows
\* app.py, whose docstring aligns the row with the dashboard's columns).
FeedbackColOf(row) ==
    IF row.prog = "brief" THEN BriefFeedbackCol ELSE AppFeedbackCol

\* sheet.update_cell(row, col, val) on the log worksheet; nfb counts the
\* writes of the row's feedback cell.
UpdateCell(sheet, row, col, val) ==
    [sheet EXCEPT ![row] =
        [@ EXCEPT !.cells = SetCell(@, col, val),
                  !.nfb = IF col = FeedbackColOf(sheet[row])
                          THEN @ + 1 ELSE @]]

\* datetime.datetime.now().strftime("%Y-%m-%d %H:%M:%S") as save_to_log reads
\* it before append_row: the wall clock, abstracted to the logical time of the
\* sheet (the rows appended so far), which never runs backwards.
Now(sheet) == ToString(Len(sheet))

\* app.py: new_row = [now_tw, session_id, user_input, ai_response, books, ""]
AppNewRow(s, now, user_input, ai, books) ==
    [cells |-> << now, s, user_input, ai, books, "" >>,
     by |-> s, prog |-> "app", nfb |-> 0]

\* app_brief.py: row = [now, user_input, ai_response, recommended_books, ""]
BriefNewRow(s, now, user_input, ai, books) ==
    [cells |-> << now, user_input, ai, books, "" >>,
     by |-> s, prog |-> "brief", nfb |-> 0]

\* len(sheet.get_all_values())
RowCount(sheet) == Len(sheet)

\* ---------------------------------------------------------------- app.py
\* results = get_recommendations(user_query): the list, or None (here the
\* empty sequence, as falsy as the empty list) when anything raised.
AppGetRecommendations(ok, ranking) ==
    IF ok THEN SimilaritySearch(ranking, K) ELSE None

\* Mutant of AppHasResults: the check of the retrieved list is forgotten.
AppHasResultsAlways(res) == TRUE

\* `if results:` (line 196)
AppHasResults(res) == res # << >>

\* Section 5 of the script: what the run renders, and the feedback widget it
\* registers. A widget that a run does not render loses its state.
\*   sr, lri: search_results and last_row_idx at this point of the run
\*   r: the run so far; wv: the feedback widget's value
AppDisplay(s, sr, lri, r, wv) ==
    LET widget == sr # None /\ Truthy(lri)
        keep   == widget /\ wkey[s] = lri
        text   == IF ~keep \/ wv = None THEN "ask" ELSE "thanks"
        out    == IF sr = None THEN {"welcome"}
                  ELSE {"results"} \cup (IF widget THEN {text} ELSE {})
    IN  /\ pc' = [pc EXCEPT ![s] = "idle"]
        /\ wkey' = [wkey EXCEPT ![s] = IF widget THEN lri ELSE None]
        /\ wval' = [wval EXCEPT ![s] = IF keep THEN wv ELSE None]
        /\ run' = [run EXCEPT ![s] = [r EXCEPT !.shown = @ \cup out]]
        /\ results' = [results EXCEPT ![s] = << >>]
        /\ ai_response' = [ai_response EXCEPT ![s] = ""]

\* The guard of the search block (line 193).
AppSearchGuard(s, q) ==
    q # "" /\ (search_results[s] = None \/ prev_query[s] # q)

\* Section 4 of the script up to the call of save_to_log (lines 193-226).
\*   okR, ranking: whether retrieval succeeded, and what the index returned
\*   okG, text: whether generation succeeded, and the text it returned
AppSearch(s, q, r, wv, okR, ranking, okG, text) ==
    LET res == AppGetRecommendations(okR, ranking)
        r1  == [r EXCEPT !.calls = Append(@, "retrieve"),
                         !.fail = IF okR THEN @ ELSE @ \cup {"retrieve"},
                         !.found = res]
        r2  == [r1 EXCEPT !.calls = Append(@, "generate"),
                          !.fail = IF okG THEN @ ELSE @ \cup {"generate"}]
    IN  IF ~AppSearchGuard(s, q)
        THEN /\ AppDisplay(s, search_results[s], last_row_idx[s], r, wv)
             /\ UNCHANGED << search_results, prev_query, saved >>
        ELSE IF ~AppHasResults(res)
        THEN /\ AppDisplay(s, search_results[s], last_row_idx[s], r1, wv)
             /\ UNCHANGED << search_results, prev_query, saved >>
        ELSE IF ~okG
        THEN /\ AppDisplay(s, search_results[s], last_row_idx[s],
                           [r2 EXCEPT !.shown = @ \cup {"error"}], wv)
             /\ UNCHANGED << search_results, prev_query, saved >>
        ELSE /\ search_results' = [search_results EXCEPT ![s] =
                    Some([ai_response |-> text,
                          books |-> AppStoredBooks(res)])]
             /\ prev_query' = [prev_query EXCEPT ![s] = q]
             /\ saved' = [saved EXCEPT ![s] = "pending"]
             /\ results' = [results EXCEPT ![s] = res]
             /\ ai_response' = [ai_response EXCEPT ![s] = text]
             /\ run' = [run EXCEPT ![s] = r2]
             /\ wval' = [wval EXCEPT ![s] = wv]
             /\ pc' = [pc EXCEPT ![s] = "append"]
             /\ UNCHANGED wkey

\* The outcomes of the external calls of one search, without duplicates: a
\* call that is not reached has no outcome.
SearchOutcomes ==
    { o \in [okR : BOOLEAN, ranking : Rankings, okG : BOOLEAN,
             text : AIResponses] :
        /\ (~o.okR) => o.ranking = << >>
        /\ (o.ranking = << >>) => o.okG
        /\ (o.ranking = << >> \/ ~o.okG) =>
               o.text = CHOOSE t \in AIResponses : TRUE }

\* The user commits a new text in the query box: the script reruns.
AppSubmit(s, q) ==
    /\ pc[s] = "idle"
    /\ clock < MaxEvents
    /\ q # query[s]
    /\ clock' = clock + 1
    /\ query' = [query EXCEPT ![s] = q]
    /\ \E o \in SearchOutcomes :
         /\ (~AppSearchGuard(s, q)) =>
                o = CHOOSE x \in SearchOutcomes : TRUE
         /\ AppSearch(s, q, FreshRun(FALSE), wval[s],
                      o.okR, o.ranking, o.okG, o.text)
    /\ UNCHANGED << log, last_row_idx, issued, returned >>

\* update_log_feedback(), the on_change callback of the feedback widget.
\*   v: the widget's new value
\*   outcome: "nosheet" get_google_sheet returned None, "fail" update_cell
\*   raised, "ok" the cell was written.
\* What it yields: whether update_cell was called, and whether it wrote.
AppCallbackWrites(s, v) ==
    Truthy(last_row_idx[s]) /\ wkey[s] = last_row_idx[s] /\ v # None

\* The user changes the feedback widget (v = None: deselects). Streamlit
\* stores the value, calls update_log_feedback, then reruns the script.
AppFeedback(s, v, outcome) ==
    LET row_idx == last_row_idx[s]
        writes  == AppCallbackWrites(s, v)
        call    == [sess |-> s, row |-> row_idx, col |-> AppFeedbackCol,
                    ws |-> "Brief_Logs"]
        done    == writes /\ outcome = "ok"
        r0      == [FreshRun(TRUE) EXCEPT
                       !.shown = IF done THEN {"toast"} ELSE {},
                       !.fail = IF writes /\ ~done THEN {"update"} ELSE {},
                       !.calls = IF writes /\ outcome # "nosheet"
                                 THEN <<"update">> ELSE << >>]
    IN  /\ pc[s] = "idle"
        /\ clock < MaxEvents
        /\ wkey[s] # None
        /\ v # wval[s]
        /\ writes \/ outcome = "ok"
        /\ clock' = clock + 1
        /\ issued' = IF writes /\ outcome # "nosheet"
                     THEN issued \cup {call} ELSE issued
        /\ log' = IF done
                  THEN UpdateCell(log, row_idx[1], AppFeedbackCol,
                                  FeedbackText(v[1]))
                  ELSE log
        /\ \E o \in SearchOutcomes :
             /\ (~AppSearchGuard(s, query[s])) =>
                    o = CHOOSE x \in SearchOutcomes : TRUE
             /\ AppSearch(s, query[s], r0, v,
                          o.okR, o.ranking, o.okG, o.text)
        /\ UNCHANGED << query, last_row_idx, returned >>

\* Mutant of AppLogFailed: save_to_log lets the exception out, the except of
\* line 228 catches it: last_row_idx is not assigned, st.error is shown.
AppLogFailedUncaught(s, r) ==
    /\ UNCHANGED last_row_idx
    /\ saved' = [saved EXCEPT ![s] = "failed"]
    /\ AppDisplay(s, search_results[s], last_row_idx[s],
                  [r EXCEPT !.fail = @ \cup {"log"},
                            !.shown = @ \cup {"error"}],
                  wval[s])

\* save_to_log failed (lines 55-57: it returns None), line 227 stores the
\* None in last_row_idx and the script goes on to the display.
AppLogFailed(s, r) ==
    /\ last_row_idx' = [last_row_idx EXCEPT ![s] = None]
    /\ saved' = [saved EXCEPT ![s] = "failed"]
    /\ AppDisplay(s, search_results[s], None,
                  [r EXCEPT !.fail = @ \cup {"log"}], wval[s])

\* save_to_log, first half: get_google_sheet and sheet.append_row(new_row).
\* When either fails save_to_log returns None and the run goes on to display.
AppAppendRow(s) ==
    /\ pc[s] = "append"
    /\ \/ /\ log' = Append(log, AppNewRow(s, Now(log), query[s], ai_response[s],
                                          AppTitlesStr(results[s])))
          /\ run' = [run EXCEPT ![s] =
                 [@ EXCEPT !.calls = Append(@, "append"),
                           !.row = Some(AppNewRow(s, Now(log), query[s],
                                                  ai_response[s],
                                                  AppTitlesStr(results[s])))]]
          /\ pc' = [pc EXCEPT ![s] = "count"]
          /\ UNCHANGED << last_row_idx, wkey, wval, results, ai_response,
                          saved >>
       \/ /\ AppLogFailed(s, [run[s] EXCEPT !.calls = Append(@, "append")])
          /\ UNCHANGED log
    /\ UNCHANGED << clock, query, search_results, prev_query, issued,
                    returned >>

\* save_to_log, second half: return len(sheet.get_all_values()), or None when
\* the read raised; the result becomes last_row_idx.
AppCountRows(s) ==
    /\ pc[s] = "count"
    /\ \/ /\ last_row_idx' = [last_row_idx EXCEPT ![s] = Some(RowCount(log))]
          /\ returned' = [returned EXCEPT ![s] = @ \cup {RowCount(log)}]
          /\ saved' = [saved EXCEPT ![s] = "ok"]
          /\ AppDisplay(s, search_results[s], Some(RowCount(log)),
                        [run[s] EXCEPT !.calls = Append(@, "count")], wval[s])
       \/ /\ AppLogFailed(s, [run[s] EXCEPT !.calls = Append(@, "count")])
          /\ UNCHANGED returned
    /\ UNCHANGED << log, clock, query, search_results, prev_query, issued >>

AppNext ==
    \E s \in AppSessions :
        \/ \E q \in Queries \cup {""} : AppSubmit(s, q)
        \/ \E v \in {None} \cup {Some(x) : x \in Scores},
              outcome \in {"nosheet", "fail", "ok"} : AppFeedback(s, v, outcome)
        \/ AppAppendRow(s)
        \/ AppCountRows(s)

\* ---------------------------------------------------------- app_brief.py
\* get_recommendations(user_input) has no try block: it returns the list or
\* raises (ok = FALSE).
BriefGetRecommendations(ranking) == SimilaritySearch(ranking, K)

\* The run ends at this point of the script. The feedback widget (it has no
\* key) keeps its value only if this run rendered it.
BriefEndRun(b, r, wv, rendered) ==
    /\ pc' = [pc EXCEPT ![b] = "idle"]
    /\ run' = [run EXCEPT ![b] = r]
    /\ wval' = [wval EXCEPT ![b] = IF rendered THEN wv ELSE None]
    /\ results' = [results EXCEPT ![b] = << >>]
    /\ ai_response' = [ai_response EXCEPT ![b] = ""]
    /\ last_row_idx' = [last_row_idx EXCEPT ![b] = None]

\* An exception no try block catches ends the run; Streamlit shows it.
BriefAbort(b, r, wv) ==
    BriefEndRun(b, [r EXCEPT !.aborted = TRUE,
                             !.shown = @ \cup {"traceback"}], wv, FALSE)

\* The script from `if user_input:` to the call of save_to_log (lines 57-74).
BriefSearch(b, q, r, wv, okR, ranking, okG, text) ==
    LET res == BriefGetRecommendations(ranking)
        r1  == [r EXCEPT !.calls = Append(@, "retrieve"),
                         !.fail = IF okR THEN @ ELSE @ \cup {"retrieve"},
                         !.found = IF okR THEN res ELSE << >>]
        r2  == [r1 EXCEPT !.calls = Append(@, "generate"),
                          !.fail = IF okG THEN @ ELSE @ \cup {"generate"}]
    IN  IF q = ""
        THEN BriefEndRun(b, r, wv, FALSE)
        ELSE IF ~okR
        THEN BriefAbort(b, r1, wv)
        ELSE IF res = << >>
        THEN BriefEndRun(b, [r1 EXCEPT !.shown = @ \cup {"warning"}], wv,
                         FALSE)
        ELSE IF ~okG
        THEN BriefAbort(b, r2, wv)
        ELSE /\ results' = [results EXCEPT ![b] = res]
             /\ ai_response' = [ai_response EXCEPT ![b] = text]
             /\ run' = [run EXCEPT ![b] =
                           [r2 EXCEPT !.shown = @ \cup {"results"}]]
             /\ wval' = [wval EXCEPT ![b] = wv]
             /\ pc' = [pc EXCEPT ![b] = "append"]
             /\ UNCHANGED last_row_idx

\* The user commits a new text in the query box: the script reruns.
BriefSubmit(b, q) ==
    /\ pc[b] = "idle"
    /\ clock < MaxEvents
    /\ q # query[b]
    /\ clock' = clock + 1
    /\ query' = [query EXCEPT ![b] = q]
    /\ \E o \in SearchOutcomes :
         /\ (q = "") => o = CHOOSE x \in SearchOutcomes : TRUE
         /\ BriefSearch(b, q, FreshRun(FALSE), wval[b],
                        o.okR, o.ranking, o.okG, o.text)
    /\ UNCHANGED << log, search_results, prev_query, wkey, issued, returned,
                    saved >>

\* The user changes the feedback widget the last run rendered: the script
\* reruns with the new value.
BriefFeedback(b, v) ==
    /\ pc[b] = "idle"
    /\ clock < MaxEvents
    /\ "feedback" \in run[b].shown
    /\ v # wval[b]
    /\ clock' = clock + 1
    /\ \E o \in SearchOutcomes :
         BriefSearch(b, query[b], FreshRun(TRUE), v,
                     o.okR, o.ranking, o.okG, o.text)
    /\ UNCHANGED << log, query, search_results, prev_query, wkey, issued,
                    returned, saved >>

\* Lines 76-80: the feedback widget is rendered; with a value set
\* update_log_feedback(row_idx, fb) is called next.
BriefFeedbackStage(b, idx, r) ==
    LET r1 == [r EXCEPT !.shown = @ \cup {"feedback"}]
    IN  IF wval[b] # None
        THEN /\ pc' = [pc EXCEPT ![b] = "update"]
             /\ run' = [run EXCEPT ![b] = r1]
             /\ last_row_idx' = [last_row_idx EXCEPT ![b] = idx]
             /\ UNCHANGED << wval, results, ai_response >>
        ELSE BriefEndRun(b, r1, wval[b], TRUE)

\* save_to_log, first half: authorisation, open and sheet.append_row(row).
\* When any of it raises save_to_log returns None.
BriefAppendRow(b) ==
    /\ pc[b] = "append"
    /\ \/ /\ log' = Append(log, BriefNewRow(b, Now(log), query[b], ai_response[b],
                                            BriefTitlesStr(results[b])))
          /\ run' = [run EXCEPT ![b] =
                 [@ EXCEPT !.calls = Append(@, "append"),
                           !.row = Some(BriefNewRow(b, Now(log), query[b],
                                                    ai_response[b],
                                                    BriefTitlesStr(results[b])))]]
          /\ pc' = [pc EXCEPT ![b] = "count"]
          /\ UNCHANGED << last_row_idx, wval, results, ai_response >>
       \/ /\ BriefFeedbackStage(b, None,
                 [run[b] EXCEPT !.calls = Append(@, "append"),
                                !.fail = @ \cup {"log"}])
          /\ UNCHANGED log
    /\ UNCHANGED << clock, query, search_results, prev_query, wkey, issued,
                    returned, saved >>

\* save_to_log, second half: return len(sheet.get_all_values()), or None.
BriefCountRows(b) ==
    /\ pc[b] = "count"
    /\ \E ok \in BOOLEAN :
         /\ returned' = [returned EXCEPT ![b] =
                            IF ok THEN @ \cup {RowCount(log)} ELSE @]
         /\ BriefFeedbackStage(b,
                IF ok THEN Some(RowCount(log)) ELSE None,
                [run[b] EXCEPT !.calls = Append(@, "count"),
                               !.fail = IF ok THEN @ ELSE @ \cup {"log"}])
    /\ UNCHANGED << log, clock, query, search_results, prev_query, wkey,
                    issued, saved >>

\* update_log_feedback(row_index, score): everything inside one try block.
\*   outcome: "nosheet" opening .sheet1 raised, "fail" update_cell raised,
\*   "ok" the cell was written. update_cell(None, ...) always raises.
\*   onLog: whether the spreadsheet's first worksheet (.sheet1) is
\*   "Brief_Logs" at the time of the call; the order of the worksheets is
\*   the owner's.
BriefUpdate(b, outcome, onLog) ==
    LET row_idx == last_row_idx[b]
        call    == [sess |-> b, row |-> row_idx, col |-> BriefFeedbackCol,
                    ws |-> IF onLog THEN "Brief_Logs" ELSE "other"]
        done    == outcome = "ok"
        text    == FeedbackText(wval[b][1])
    IN  /\ pc[b] = "update"
        /\ done => Truthy(row_idx)
        /\ (outcome = "nosheet") => onLog
        /\ issued' = IF outcome # "nosheet" THEN issued \cup {call} ELSE issued
        /\ log' = IF done /\ onLog
                  THEN UpdateCell(log, row_idx[1], BriefFeedbackCol, text)
                  ELSE log
        /\ BriefEndRun(b, [run[b] EXCEPT
                              !.calls = IF outcome # "nosheet"
                                        THEN Append(@, "update") ELSE @,
                              !.fail = IF done THEN @ ELSE @ \cup {"update"},
                              !.shown = @ \cup {"success"}],
                       wval[b], TRUE)
        /\ UNCHANGED << clock, query, search_results, prev_query, wkey,
                        returned, saved >>

BriefNext ==
    \E b \in BriefSessions :
        \/ \E q \in Queries \cup {""} : BriefSubmit(b, q)
        \/ \E v \in {None} \cup {Some(x) : x \in Scores} : BriefFeedback(b, v)
        \/ BriefAppendRow(b)
        \/ BriefCountRows(b)
        \/ \E outcome \in {"nosheet", "fail", "ok"}, onLog \in BOOLEAN :
              BriefUpdate(b, outcome, onLog)

Next == AppNext \/ BriefNext

Spec == Init /\ [][Next]_vars

\* ----------------------------------------------------------------- claims
\* The calls of the pipeline a run made, without the feedback write and the
\* row count that closes save_to_log.
PipelineCalls(s) ==
    SelectSeq(run[s].calls, LAMBDA c : c \in {"retrieve", "generate", "append"})

\* C1: every update_cell call carries a row index that an earlier successful
\* save_to_log of the same session returned, so the row exists in the log;
\* after a failed append (save_to_log returned None) no call is issued.
C1_FeedbackOnlyOnAppendedRow ==
    \A c \in issued :
        /\ Truthy(c.row)
        /\ c.row[1] \in returned[c.sess]
        /\ c.row[1] \in 1..Len(log)

\* C2: the Feedback cell of a log row is written at most once after the row
\* is appended.
C2_FeedbackWrittenAtMostOnce ==
    \A i \in 1..Len(log) : log[i].nfb <= 1

\* C3: the log is append-only: no step removes a row or changes a cell of an
\* existing row other than its Feedback cell, and a step changes at most one
\* existing row.
C3_AppendOnly ==
    [][ /\ Len(log') >= Len(log)
        /\ \A i \in 1..Len(log) :
             \A c \in 1..Len(log[i].cells) :
                c # FeedbackColOf(log[i]) =>
                    /\ c <= Len(log'[i].cells)
                    /\ log'[i].cells[c] = log[i].cells[c]
        /\ Cardinality({i \in 1..Len(log) : log'[i] # log[i]}) <= 1 ]_vars

\* C4: a finished page run in which retrieval or generation failed shows a
\* generic message of the application (st.error or st.warning).
C4_FailureShowsMessage ==
    \A s \in Sessions :
        (pc[s] = "idle" /\ run[s].fail \cap {"retrieve", "generate"} # {})
            => run[s].shown \cap {"error", "warning"} # {}

\* C5: no failure of an external call escapes as an uncaught error that
\* aborts the page run.
C5_NoUncaughtFailure ==
    \A s \in Sessions : ~run[s].aborted

\* The update_cell calls a session has issued.
IssuedBy(s) == {c \in issued : c.sess = s}

\* What C6 says of one app.py session in one state.
C6_State(s) ==
    /\ (pc[s] = "idle" /\ "log" \in run[s].fail) =>
          /\ saved[s] = "failed"
          /\ prev_query[s] = query[s]
          /\ search_results[s] # None
          /\ Len(search_results[s][1].books) = Len(run[s].found)
          /\ "results" \in run[s].shown
          /\ run[s].shown \cap {"error", "traceback", "warning"} = {}
    /\ saved[s] = "failed" =>
          /\ search_results[s] # None
          /\ last_row_idx[s] = None
          /\ wkey[s] = None

\* C6: in app.py a failure of save_to_log is silent: the results of the query
\* are stored and shown, no error is shown, last_row_idx is None, no feedback
\* widget is on the page, and while these results stay the stored ones the
\* session issues no update_cell.
C6_LogFailureIsSilent ==
    /\ [](\A s \in AppSessions : C6_State(s))
    /\ [][\A s \in AppSessions :
            saved[s] = "failed" => IssuedBy(s)' = IssuedBy(s)]_vars

\* C6's case: a session whose earlier query was logged, and whose latest
\* query was answered while save_to_log failed.
C6_Witness ==
    \E s \in AppSessions :
        /\ pc[s] = "idle"
        /\ "log" \in run[s].fail
        /\ returned[s] # {}

\* C7: in every page run the pipeline's calls are a prefix of retrieval,
\* generation, log append, each made at most once; generation is called only
\* after retrieval returned a non-empty list, and the row is appended only
\* after generation succeeded.
C7_CallOrder ==
    \A s \in Sessions :
        LET c == PipelineCalls(s)
        IN  /\ Len(c) <= 3
            /\ c = SubSeq(<<"retrieve", "generate", "append">>, 1, Len(c))
            /\ Len(c) >= 2 =>
                  "retrieve" \notin run[s].fail /\ run[s].found # << >>
            /\ Len(c) >= 3 => "generate" \notin run[s].fail
            /\ run[s].row # None => Len(c) = 3

\* C7's case: a run of app.py and a run of app_brief.py that both went
\* through retrieval, generation and the append, and a run that stopped
\* after a failed generation.
C7_Witness ==
    /\ \E s \in AppSessions : run[s].row # None
    /\ \E b \in BriefSessions : run[b].row # None
    /\ \E s \in Sessions : PipelineCalls(s) = <<"retrieve", "generate">>

\* The titles joined with ", ", built from the right.
RECURSIVE CommaJoined(_)
CommaJoined(t) ==
    IF Len(t) = 0 THEN ""
    ELSE IF Len(t) = 1 THEN t[1]
    ELSE CommaJoined(SubSeq(t, 1, Len(t) - 1)) \o ", " \o t[Len(t)]

\* The title of a document, or blank when its metadata has none.
TitleOr(d, blank) == IF "Title" \in DOMAIN Meta(d) THEN Meta(d).Title ELSE blank

\* C8: the row a run appends carries, as recommended titles, the comma-joined
\* titles of the documents retrieval returned in this run (at most K), in
\* retrieval order, next to the generated text; in app.py the books stored
\* for display are these documents in this order, with this text.
C8_TitlesAreRetrievedBooks ==
    \A s \in Sessions :
        run[s].row # None =>
            LET row  == run[s].row[1]
                docs == run[s].found
            IN  /\ Len(docs) \in 1..K
                /\ IF s \in AppSessions
                   THEN /\ row.cells[5] = CommaJoined(
                               [i \in 1..Len(docs) |-> TitleOr(docs[i], "unknown")])
                        /\ search_results[s] # None
                        /\ row.cells[4] = search_results[s][1].ai_response
                        /\ Len(search_results[s][1].books) = Len(docs)
                        /\ \A i \in 1..Len(docs) :
                             /\ search_results[s][1].books[i].Title =
                                    TitleOr(docs[i], "unknown")
                             /\ search_results[s][1].books[i].Author =
                                    MetaGet(docs[i], "Author", "unknown")
                   ELSE /\ row.cells[4] = CommaJoined(
                               [i \in 1..Len(docs) |-> TitleOr(docs[i], "")])
                        /\ pc[s] # "idle" =>
                             /\ results[s] = docs
                             /\ row.cells[3] = ai_response[s]

\* C8's case: rows appended by app.py and by app_brief.py for a retrieval
\* that the index cut to K documents.
C8_Witness ==
    /\ \E s \in AppSessions : run[s].row # None /\ Len(run[s].found) = K
    /\ \E b \in BriefSessions : run[b].row # None /\ pc[b] = "update"

\* C9: a page rerun with the query text unchanged performs no search, no
\* generation and no log append.
C9_RerunDoesNothing ==
    \A s \in Sessions : run[s].rerun => PipelineCalls(s) = << >>

\* C10: the row index save_to_log returns in app.py is the index of the row
\* this session appended, and no app.py session has issued a feedback write
\* for a row that carries another SessionID.
C10_RowIndexIsOwnRow ==
    /\ \A s \in AppSessions :
          Truthy(last_row_idx[s]) =>
              /\ last_row_idx[s][1] \in 1..Len(log)
              /\ log[last_row_idx[s][1]].by = s
    /\ \A c \in issued :
          c.sess \in AppSessions => log[c.row[1]].cells[2] = c.sess

\* C11: in app.py, after a page run that leaves a non-empty query box and
\* displayed results, the displayed advice and books are those generated for
\* the text in the box (prev_query equals the query).
C11_DisplayedResultsAreForQuery ==
    \A s \in AppSessions :
        (pc[s] = "idle" /\ query[s] # "" /\ "results" \in run[s].shown)
            => /\ search_results[s] # None
               /\ prev_query[s] = query[s]

====
